---- MODULE Spec2Model ----
(***************************************************************************)
(* A model of src/streamlit_app.py (ChartView 2.0): the pivot-point        *)
(* calculation, the cached chart-data loader, the chart adapter and the    *)
(* paginated Streamlit script.                                              *)
(*                                                                         *)
(* Prices are integers counting hundredths (1 is 0.01), so round(x, 2) is  *)
(* rounding to the nearest integer.  Values that the code divides by 3 are *)
(* kept as integer numerators over 3 until they are rounded.  Python's     *)
(* None is the empty sequence <<>> and a present value v is <<v>>.          *)
(***************************************************************************)
EXTENDS Integers, Sequences, FiniteSets, TLC

VARIABLES
    high, low, close, levels,       \* calculate_pivot_points: arguments and return value
    today,                          \* datetime.now(), as a calendar date
    fetched, result,                \* one call of load_chart_data: what yf.download gave, what was returned
    market,                         \* which series the market-data source currently supplies
    cache,                          \* st.cache_data of load_chart_data, keyed by symbol
    selected_table, search_term,    \* sidebar widgets
    current_page, previous_table,   \* st.session_state
    pc, i, drawn, calls             \* the running script: position, loop index, emitted output, loads made

vars == <<high, low, close, levels, today, fetched, result, market, cache,
          selected_table, search_term, current_page, previous_table, pc, i, drawn, calls>>

-----------------------------------------------------------------------------
(* Bounds of the model *)

MaxPivotPrice == 5
MaxBars == 3
MaxPage == 4
MaxMarket == 1
MaxExtraRows == 1

-----------------------------------------------------------------------------
(* Python values *)

None == <<>>
Some(v) == <<v>>
Last(s) == s[Len(s)]

-----------------------------------------------------------------------------
(* calculate_pivot_points *)

\* round(x, 2) of x = n3/3 hundredths: n3/3 is never halfway between two integers
Round2(n3) == (2 * n3 + 3) \div 6

calculate_pivot_points_r1_s1_swapped(h, l, c) ==
    LET pivot == h + l + c
        r1 == 2 * pivot - 3 * h
        s1 == 2 * pivot - 3 * l
        r2 == pivot + 3 * (h - l)
        s2 == pivot - 3 * (h - l)
        r3 == 3 * h + 2 * (pivot - 3 * l)
        s3 == 3 * l - 2 * (3 * h - pivot)
    IN  [P |-> Round2(pivot), R1 |-> Round2(r1), R2 |-> Round2(r2), R3 |-> Round2(r3),
         S1 |-> Round2(s1), S2 |-> Round2(s2), S3 |-> Round2(s3)]

\* pivot, r1 .. s3 are the code's values times 3
calculate_pivot_points(h, l, c) ==
    LET pivot == h + l + c
        r1 == 2 * pivot - 3 * l
        s1 == 2 * pivot - 3 * h
        r2 == pivot + 3 * (h - l)
        s2 == pivot - 3 * (h - l)
        r3 == 3 * h + 2 * (pivot - 3 * l)
        s3 == 3 * l - 2 * (3 * h - pivot)
    IN  [P |-> Round2(pivot), R1 |-> Round2(r1), R2 |-> Round2(r2), R3 |-> Round2(r3),
         S1 |-> Round2(s1), S2 |-> Round2(s2), S3 |-> Round2(s3)]

-----------------------------------------------------------------------------
(* datetime *)

Date(y, m, d) == [year |-> y, month |-> m, day |-> d]

IsLeap(y) == (y % 4 = 0 /\ y % 100 # 0) \/ y % 400 = 0

DaysInMonth(y, m) ==
    IF m = 2 THEN (IF IsLeap(y) THEN 29 ELSE 28)
    ELSE IF m \in {4, 6, 9, 11} THEN 30 ELSE 31

\* date.replace(day=1)
ReplaceDay1(dt) == Date(dt.year, dt.month, 1)

\* date - timedelta(days=1)
MinusOneDay(dt) ==
    IF dt.day > 1 THEN Date(dt.year, dt.month, dt.day - 1)
    ELSE IF dt.month > 1 THEN Date(dt.year, dt.month - 1, DaysInMonth(dt.year, dt.month - 1))
    ELSE Date(dt.year - 1, 12, 31)

RECURSIVE MinusDays(_, _)
MinusDays(dt, n) == IF n = 0 THEN dt ELSE MinusDays(MinusOneDay(dt), n - 1)

Digits2(n) == <<(n \div 10) % 10, n % 10>>
Digits4(n) == <<(n \div 1000) % 10, (n \div 100) % 10>> \o Digits2(n)

\* strftime('%Y-%m') and strftime('%Y-%m-%d'), as sequences of digits and "-"
StrfYm(dt) == Digits4(dt.year) \o <<"-">> \o Digits2(dt.month)
StrfYmd(dt) == StrfYm(dt) \o <<"-">> \o Digits2(dt.day)

DateBefore(a, b) ==
    \/ a.year < b.year
    \/ a.year = b.year /\ a.month < b.month
    \/ a.year = b.year /\ a.month = b.month /\ a.day < b.day

-----------------------------------------------------------------------------
(* load_chart_data *)

\* The tuple (chart_data, current_price, volume, daily_change, pivot_points)
Tuple5(cd, cp, v, dc, pp) ==
    [chart_data |-> cd, current_price |-> cp, volume |-> v, daily_change |-> dc, pivot_points |-> pp]

\* return None, None, None, None, None
NoData == Tuple5(None, None, None, None, None)

\* How a call ends: it returns ret, or an exception leaves it
Return(v) == [raised |-> FALSE, ret |-> v]
Raise == [raised |-> TRUE, ret |-> NoData]

RECURSIVE MaxHigh(_)
MaxHigh(rows) ==
    IF Len(rows) = 1 THEN rows[1].High
    ELSE LET m == MaxHigh(Tail(rows)) IN IF rows[1].High >= m THEN rows[1].High ELSE m

RECURSIVE MinLow(_)
MinLow(rows) ==
    IF Len(rows) = 1 THEN rows[1].Low
    ELSE LET m == MinLow(Tail(rows)) IN IF rows[1].Low <= m THEN rows[1].Low ELSE m

prev_month_no_replace(now) == StrfYm(MinusDays(now, 30))

\* (datetime.now().replace(day=1) - timedelta(days=1)).strftime('%Y-%m')
prev_month(now) == StrfYm(MinusOneDay(ReplaceDay1(now)))

\* df[df['Date'].dt.strftime('%Y-%m') == prev_month]
prev_month_data(df, now) ==
    LET InPrev(row) == StrfYm(row.Date) = prev_month(now) IN SelectSeq(df, InPrev)

\* prev_month_data['Close'].iloc[-1]
monthly_close(pmd) == Last(pmd).Close

pivot_points_or_fail(df, now) ==
    LET pmd == prev_month_data(df, now)
    IN  IF Len(pmd) > 0
        THEN Return(Some(calculate_pivot_points(MaxHigh(pmd), MinLow(pmd), monthly_close(pmd))))
        ELSE Raise

\* the if/else on len(prev_month_data): the pivots of the previous month, or None
pivot_points_of(df, now) ==
    LET pmd == prev_month_data(df, now)
    IN  IF Len(pmd) > 0
        THEN Return(Some(calculate_pivot_points(MaxHigh(pmd), MinLow(pmd), monthly_close(pmd))))
        ELSE Return(None)

\* the DataFrame of time, open, high, low, close, volume
chart_data_of(df) ==
    [k \in 1..Len(df) |->
        [time |-> StrfYmd(df[k].Date), open |-> df[k].Open, high |-> df[k].High,
         low |-> df[k].Low, close |-> df[k].Close, volume |-> df[k].Volume]]

daily_change_reversed(current_price, prev_price) ==
    [num |-> (prev_price - current_price) * 100, den |-> current_price]

\* ((current_price - prev_price) / prev_price) * 100, as the fraction num/den
daily_change_of(current_price, prev_price) ==
    [num |-> (current_price - prev_price) * 100, den |-> prev_price]

\* daily_change >= 0
NonNegative(dc) == dc.num * dc.den >= 0

prev_price_first_row(df) == Return(df[1].Close)

\* df['Close'].iloc[-2], an IndexError when df has one row
prev_price_of(df) == IF Len(df) < 2 THEN Raise ELSE Return(df[Len(df) - 1].Close)

\* The statements inside the try block.  fetch is what yf.download does: it
\* raises, or it gives the rows of df in the order of their dates.  Closes are
\* positive, so the division by prev_price is defined.
load_chart_data_try(fetch, now) ==
    IF fetch.kind = "error" THEN Raise
    ELSE LET df == fetch.rows IN
        IF Len(df) = 0 THEN Return(NoData)               \* df.empty
        ELSE LET pp == pivot_points_of(df, now)
                 current_price == Last(df).Close
                 prev_price == prev_price_of(df)
             IN  IF pp.raised \/ prev_price.raised THEN Raise
                 ELSE Return(Tuple5(Some(chart_data_of(df)), Some(current_price),
                                    Some(Last(df).Volume),
                                    Some(daily_change_of(current_price, prev_price.ret)),
                                    pp.ret))

load_chart_data_no_except(fetch, now) == load_chart_data_try(fetch, now)

\* The function body: try ... except Exception: return None, None, None, None, None
load_chart_data_body(fetch, now) ==
    LET r == load_chart_data_try(fetch, now) IN IF r.raised THEN Return(NoData) ELSE r

-----------------------------------------------------------------------------
(* The market-data source: what yf.download can give *)

Prices == {1, 2}
Volumes == {0, 1}

\* One trading day: low <= close <= high
BarValues ==
    {[Open |-> l, High |-> h, Low |-> l, Close |-> c, Volume |-> v] :
        l \in Prices, h \in Prices, c \in Prices, v \in Volumes}

GoodBarValues == {b \in BarValues : b.Low <= b.Close /\ b.Close <= b.High}

Bar(dt, b) ==
    [Date |-> dt, Open |-> b.Open, High |-> b.High, Low |-> b.Low, Close |-> b.Close,
     Volume |-> b.Volume]

DatePool ==
    {Date(2024, 2, 29), Date(2024, 12, 30), Date(2025, 1, 2), Date(2025, 2, 3),
     Date(2025, 2, 28), Date(2025, 3, 3)}

LoadTodays == {Date(2024, 3, 1), Date(2025, 1, 15), Date(2025, 3, 31)}

\* The date columns of n rows, ascending, none after now
DateColumns(n, now) ==
    {ds \in [1..n -> {d \in DatePool : DateBefore(d, now)}] :
        \A k \in 1..(n - 1) : DateBefore(ds[k], ds[k + 1])}

Df(rows) == [kind |-> "df", rows |-> rows]
FetchError == [kind |-> "error", rows |-> <<>>]

\* fetch is one of the outcomes of yf.download at the date now
IsFetchOutcome(fetch, now) ==
    \/ fetch = FetchError
    \/ \E n \in 0..MaxBars : \E ds \in DateColumns(n, now) : \E bs \in [1..n -> GoodBarValues] :
          fetch = Df([k \in 1..n |-> Bar(ds[k], bs[k])])

-----------------------------------------------------------------------------
(* The collections of symbols and the state no run has touched *)

CHARTS_PER_PAGE == 12

StartDate == Date(2025, 3, 31)

NotRunning ==
    /\ market = 0
    /\ selected_table = "A" /\ search_term = "" /\ current_page = 1 /\ previous_table = "A"
    /\ pc = "off" /\ i = 0 /\ drawn = <<>> /\ calls = <<>>

NoPivotCall == high = 0 /\ low = 0 /\ close = 0 /\ levels = None

NoLoadCall == fetched = FetchError /\ result = None

\* get_tables(): the tables of stocks1.db
Tables == <<"A", "B">>

Row(sym) == [symbol |-> sym, stock_name |-> <<"name", sym>>]

\* get_stocks_from_table: SELECT DISTINCT symbol, stock_name ... ORDER BY symbol.
\* Symbols are numbered in their sort order.
get_stocks_from_table(table) ==
    IF table = "A" THEN [k \in 1..(2 * CHARTS_PER_PAGE + MaxExtraRows) |-> Row(k)]
    ELSE <<Row(2 * CHARTS_PER_PAGE + 1)>>

Symbols == 1..(2 * CHARTS_PER_PAGE + MaxExtraRows)

SearchTerms == {"", "x", "zz"}

\* str.contains(search_term, case=False) on stock_name or on symbol: "x" occurs
\* in the rows after the second full page, "zz" in none
str_contains(row, term) == term = "x" /\ row.symbol > 2 * CHARTS_PER_PAGE

\* stocks_df after the search filter
filtered_stocks(table, term) ==
    LET Keep(row) == str_contains(row, term)
    IN  IF term # "" THEN SelectSeq(get_stocks_from_table(table), Keep)
        ELSE get_stocks_from_table(table)

\* math.ceil(len(stocks_df) / CHARTS_PER_PAGE)
total_pages_of(n) == (n + CHARTS_PER_PAGE - 1) \div CHARTS_PER_PAGE

Min(a, b) == IF a <= b THEN a ELSE b

\* start_idx and end_idx, as positions counted from 0
start_idx_of(page) == (page - 1) * CHARTS_PER_PAGE
end_idx_of(page, n) == Min(start_idx_of(page) + CHARTS_PER_PAGE, n)

stocks_df == filtered_stocks(selected_table, search_term)
total_pages == total_pages_of(Len(stocks_df))
start_idx == start_idx_of(current_page)
end_idx == end_idx_of(current_page, Len(stocks_df))

\* The series yf.download gives, by symbol: the source fails for some symbols
\* and has short or long histories for others, and what it gives changes over time
Pool ==
    <<FetchError,
      Df(<<Bar(Date(2025, 2, 3), [Open |-> 1, High |-> 2, Low |-> 1, Close |-> 2, Volume |-> 1]),
           Bar(Date(2025, 2, 28), [Open |-> 1, High |-> 1, Low |-> 1, Close |-> 1, Volume |-> 0]),
           Bar(Date(2025, 3, 3), [Open |-> 2, High |-> 2, Low |-> 2, Close |-> 2, Volume |-> 1])>>),
      Df(<<Bar(Date(2025, 3, 3), [Open |-> 1, High |-> 1, Low |-> 1, Close |-> 1, Volume |-> 1])>>),
      Df(<<Bar(Date(2025, 3, 3), [Open |-> 1, High |-> 2, Low |-> 1, Close |-> 2, Volume |-> 0]),
           Bar(Date(2025, 3, 28), [Open |-> 1, High |-> 2, Low |-> 1, Close |-> 1, Volume |-> 1])>>),
      Df(<<>>)>>

Supply(symbol, m) == Pool[((symbol + m) % Len(Pool)) + 1]

\* The dates the clock passes through
Clock == <<StartDate, Date(2025, 4, 1)>>

-----------------------------------------------------------------------------
(* create_chart and one chart slot of the display loop *)

Instr(op, slot, arg) == [op |-> op, slot |-> slot, arg |-> arg]

Abs(n) == IF n < 0 THEN -n ELSE n

\* The st.markdown header
header_of(name, current_price, volume, daily_change) ==
    [name |-> name, price |-> current_price,
     change_symbol |-> IF NonNegative(daily_change) THEN "up" ELSE "down",
     change |-> [num |-> Abs(daily_change.num), den |-> Abs(daily_change.den)],
     volume |-> volume]

pivot_lines_without_s3(slot, pivot_points) ==
    IF pivot_points # None
    THEN LET pp == pivot_points[1] IN
         <<Instr("horizontal_line", slot, <<"P", pp.P>>),
           Instr("horizontal_line", slot, <<"R1", pp.R1>>),
           Instr("horizontal_line", slot, <<"R2", pp.R2>>),
           Instr("horizontal_line", slot, <<"R3", pp.R3>>),
           Instr("horizontal_line", slot, <<"S1", pp.S1>>),
           Instr("horizontal_line", slot, <<"S2", pp.S2>>)>>
    ELSE <<>>

\* if pivot_points: the seven chart.horizontal_line calls
pivot_lines(slot, pivot_points) ==
    IF pivot_points # None
    THEN LET pp == pivot_points[1] IN
         <<Instr("horizontal_line", slot, <<"P", pp.P>>),
           Instr("horizontal_line", slot, <<"R1", pp.R1>>),
           Instr("horizontal_line", slot, <<"R2", pp.R2>>),
           Instr("horizontal_line", slot, <<"R3", pp.R3>>),
           Instr("horizontal_line", slot, <<"S1", pp.S1>>),
           Instr("horizontal_line", slot, <<"S2", pp.S2>>),
           Instr("horizontal_line", slot, <<"S3", pp.S3>>)>>
    ELSE <<>>

\* create_chart: what it emits, and whether it returns a chart.  The calls that
\* only style the chart (layout, candle_style, volume_config, crosshair,
\* time_scale, grid) carry no data and are left out.
create_chart(slot, t, name) ==
    IF t.chart_data # None
    THEN [chart |-> TRUE,
          out |-> <<Instr("markdown", slot,
                          header_of(name, t.current_price[1], t.volume[1], t.daily_change[1]))>>
                  \o pivot_lines(slot, t.pivot_points)
                  \o <<Instr("set", slot, t.chart_data[1])>>]
    ELSE [chart |-> FALSE, out |-> <<>>]

\* load_chart_data under @st.cache_data: a stored return value is given back
\* without running the body; a return value is stored, an exception is not
cached_load_chart_data(c, symbol, m, now) ==
    IF c[symbol] # None THEN [hit |-> TRUE, outcome |-> Return(c[symbol][1]), cache |-> c]
    ELSE LET o == load_chart_data_body(Supply(symbol, m), now)
         IN  [hit |-> FALSE, outcome |-> o,
              cache |-> IF o.raised THEN c ELSE [c EXCEPT ![symbol] = Some(o.ret)]]

\* One column of the display loop after its load ld, for the row at position
\* idx (from 0): create_chart and chart.load() when chart_data is not None
SlotAfterLoad(st, row, idx, m, now, ld) ==
    LET call == [slot |-> idx, symbol |-> row.symbol, hit |-> ld.hit,
                 supplied |-> Supply(row.symbol, m), now |-> now,
                 raised |-> ld.outcome.raised, ret |-> ld.outcome.ret]
        made == IF ~ld.outcome.raised /\ ld.outcome.ret.chart_data # None
                THEN create_chart(idx, ld.outcome.ret, row.stock_name)
                ELSE [chart |-> FALSE, out |-> <<>>]
    IN  [cache |-> ld.cache,
         calls |-> Append(st.calls, call),
         drawn |-> st.drawn \o made.out
                     \o (IF made.chart THEN <<Instr("load", idx, <<>>)>> ELSE <<>>),
         crashed |-> ld.outcome.raised]

\* One column of the display loop: load_chart_data(symbol), then the chart
ChartSlot(st, df, idx, m, now) ==
    CHOOSE after \in
        {SlotAfterLoad(st, df[idx + 1], idx, m, now, ld) :
            ld \in {cached_load_chart_data(st.cache, df[idx + 1].symbol, m, now)}} : TRUE

second_index_same(idx) == idx

\* the position of the second chart of a row of the grid
second_index(idx) == idx + 1

-----------------------------------------------------------------------------
(* SpecPivot: calculate_pivot_points on every high >= low and every close *)

InitPivot ==
    /\ high \in 0..MaxPivotPrice
    /\ low \in 0..high
    /\ close \in 0..(3 * MaxPivotPrice)
    /\ levels = None
    /\ today = StartDate /\ cache = [sym \in Symbols |-> None]
    /\ NoLoadCall /\ NotRunning

CalculatePivotPoints ==
    /\ pc = "off" /\ levels = None /\ result = None
    /\ levels' = Some(calculate_pivot_points(high, low, close))
    /\ UNCHANGED <<high, low, close, today, fetched, result, market, cache, selected_table,
                   search_term, current_page, previous_table, pc, i, drawn, calls>>

NextPivot == CalculatePivotPoints

SpecPivot == InitPivot /\ [][NextPivot]_vars

Ordered(lv) ==
    /\ lv.S3 <= lv.S2 /\ lv.S2 <= lv.S1 /\ lv.S1 <= lv.P
    /\ lv.P <= lv.R1 /\ lv.R1 <= lv.R2 /\ lv.R2 <= lv.R3

\* C1 as stated: for every high >= low and any close, S3 <= S2 <= S1 <= P <= R1 <= R2 <= R3
C1_OrderedForAnyClose == levels # None => Ordered(levels[1])

\* C1 amended: the levels are ordered when high >= low and the pivot lies in
\* [low, high], that is 2*low - high <= close <= 2*high - low
C1_OrderedWhenPivotInRange ==
    (levels # None /\ 2 * low - high <= close /\ close <= 2 * high - low) => Ordered(levels[1])

C1_Witness ==
    /\ levels # None /\ low < close /\ close < high
    /\ levels[1].S3 < levels[1].S1 /\ levels[1].S1 < levels[1].P /\ levels[1].P < levels[1].R2

-----------------------------------------------------------------------------
(* SpecLoad: one uncached call of load_chart_data, on every series and date *)

InitLoad ==
    /\ today \in LoadTodays
    /\ IsFetchOutcome(fetched, today)
    /\ result = None
    /\ cache = [sym \in Symbols |-> None]
    /\ NoPivotCall /\ NotRunning

LoadChartData ==
    /\ pc = "off" /\ result = None /\ levels = None
    /\ result' = Some(load_chart_data_body(fetched, today))
    /\ UNCHANGED <<high, low, close, levels, today, fetched, market, cache, selected_table,
                   search_term, current_page, previous_table, pc, i, drawn, calls>>

NextLoad == LoadChartData

SpecLoad == InitLoad /\ [][NextLoad]_vars

Returned == result # None /\ ~result[1].raised
Ret == result[1].ret
NBars == Len(fetched.rows)

AllAbsent(t) ==
    /\ t.chart_data = <<>> /\ t.current_price = <<>> /\ t.volume = <<>>
    /\ t.daily_change = <<>> /\ t.pivot_points = <<>>

SummaryPresent(t) ==
    /\ Len(t.chart_data) = 1 /\ Len(t.current_price) = 1 /\ Len(t.volume) = 1
    /\ Len(t.daily_change) = 1

\* C3: with zero bars or one bar the call returns five None, never a partial
\* bundle; it returns a bundle only when the series has at least 2 bars
C3_NoDataBelowTwoBars ==
    result # None =>
        /\ ~result[1].raised
        /\ AllAbsent(Ret) \/ SummaryPresent(Ret)
        /\ (fetched.kind = "df" /\ NBars <= 1) => AllAbsent(Ret)
        /\ SummaryPresent(Ret) => (fetched.kind = "df" /\ NBars >= 2)

C3_Witness == Returned /\ fetched.kind = "df" /\ NBars = 1 /\ AllAbsent(Ret)

\* The previous calendar month of a date, as <<year, month>>
PreviousCalendarMonth(dt) ==
    IF dt.month = 1 THEN <<dt.year - 1, 12>> ELSE <<dt.year, dt.month - 1>>

\* The positions of the fetched bars dated in the previous calendar month
PrevMonthBars ==
    {k \in 1..NBars :
        <<fetched.rows[k].Date.year, fetched.rows[k].Date.month>> = PreviousCalendarMonth(today)}

\* C4: at least 2 bars, none of the previous calendar month: a bundle without
\* pivots whose series, price, volume and change come from the whole series
C4_BundleWithoutPivots ==
    (result # None /\ fetched.kind = "df" /\ NBars >= 2 /\ PrevMonthBars = {}) =>
        /\ Returned
        /\ Ret.pivot_points = <<>>
        /\ SummaryPresent(Ret)
        /\ Len(Ret.chart_data[1]) = NBars
        /\ \A k \in 1..NBars :
              LET pt == Ret.chart_data[1][k]
                  row == fetched.rows[k]
              IN  /\ pt.time = StrfYmd(row.Date)
                  /\ <<pt.open, pt.high, pt.low, pt.close, pt.volume>>
                        = <<row.Open, row.High, row.Low, row.Close, row.Volume>>
        /\ Ret.current_price[1] = fetched.rows[NBars].Close
        /\ Ret.volume[1] = fetched.rows[NBars].Volume
        /\ Ret.daily_change[1].num * fetched.rows[NBars - 1].Close
              = (fetched.rows[NBars].Close - fetched.rows[NBars - 1].Close) * 100
                    * Ret.daily_change[1].den

C4_Witness ==
    /\ Returned /\ NBars = 3 /\ PrevMonthBars = {}
    /\ SummaryPresent(Ret) /\ Ret.pivot_points = <<>>

SetMax(S) == CHOOSE x \in S : \A y \in S : y <= x
SetMin(S) == CHOOSE x \in S : \A y \in S : x <= y

\* C5: the subset used for the pivots is exactly the fetched bars of the previous
\* calendar month, and the pivots come from its maximum high, its minimum low
\* and the close of its last bar by date
C5_PivotsFromPreviousMonth ==
    (Returned /\ SummaryPresent(Ret)) =>
        /\ {prev_month_data(fetched.rows, today)[k] :
                k \in 1..Len(prev_month_data(fetched.rows, today))}
             = {fetched.rows[k] : k \in PrevMonthBars}
        /\ (PrevMonthBars = {}) <=> (Ret.pivot_points = <<>>)
        /\ PrevMonthBars # {} =>
              LET lastBar == CHOOSE k \in PrevMonthBars :
                                \A j \in PrevMonthBars \ {k} :
                                    DateBefore(fetched.rows[j].Date, fetched.rows[k].Date)
              IN  Ret.pivot_points =
                     <<calculate_pivot_points(
                          SetMax({fetched.rows[k].High : k \in PrevMonthBars}),
                          SetMin({fetched.rows[k].Low : k \in PrevMonthBars}),
                          fetched.rows[lastBar].Close)>>

C5_Witness ==
    /\ Returned /\ SummaryPresent(Ret) /\ Ret.pivot_points # <<>>
    /\ Cardinality(PrevMonthBars) = 2 /\ NBars = 3
    /\ today.month = 3 /\ today.day = 31
    /\ \E j, k \in PrevMonthBars :
          /\ j < k
          /\ fetched.rows[j].High > fetched.rows[k].High
          /\ fetched.rows[j].Close # fetched.rows[k].Close

C5_WitnessJanuary ==
    /\ Returned /\ SummaryPresent(Ret) /\ Ret.pivot_points # <<>>
    /\ today.month = 1 /\ PrevMonthBars # {}

\* C6: percentChange >= 0 exactly when the last close is at least the close before it
C6_ChangeSign ==
    (Returned /\ SummaryPresent(Ret)) =>
        (NonNegative(Ret.daily_change[1])
            <=> fetched.rows[NBars].Close >= fetched.rows[NBars - 1].Close)

C6_Witness ==
    /\ Returned /\ SummaryPresent(Ret)
    /\ ~NonNegative(Ret.daily_change[1])
    /\ fetched.rows[NBars].Close < fetched.rows[NBars - 1].Close

-----------------------------------------------------------------------------
(* Spec: the Streamlit script, run after run *)

\* The first run of the script, up to the display loop
Init ==
    /\ today = StartDate
    /\ market = 0
    /\ cache = [sym \in Symbols |-> None]
    /\ selected_table = Tables[1] /\ search_term = ""
    /\ current_page = 1 /\ previous_table = Tables[1]
    /\ pc = "loop" /\ i = start_idx_of(1) /\ drawn = <<>> /\ calls = <<>>
    /\ NoPivotCall /\ NoLoadCall

Untouched == UNCHANGED <<high, low, close, levels, fetched, result>>

\* A run of the script from its top to the display loop, with the session
\* state as the run leaves it.  A widget event starts the next run once the
\* running one has reached its end; the clock and the market-data source are
\* read as they stand during a run and change between runs.
StartRun(page) ==
    /\ current_page' = page
    /\ pc' = "loop" /\ i' = start_idx_of(page) /\ drawn' = <<>> /\ calls' = <<>>

\* The user picks another table: the page is reset when the table changes
SelectTable(table) ==
    /\ pc = "done" /\ table # selected_table
    /\ selected_table' = table
    /\ previous_table' = table
    /\ StartRun(IF previous_table # table THEN 1 ELSE current_page)
    /\ UNCHANGED <<today, market, cache, search_term>> /\ Untouched

\* The user changes the search term
ChangeSearch(term) ==
    /\ pc = "done" /\ term # search_term
    /\ search_term' = term
    /\ StartRun(current_page)
    /\ UNCHANGED <<today, market, cache, selected_table, previous_table>> /\ Untouched

\* "Previous", enabled unless current_page == 1: decrement, st.rerun()
ClickPrevious ==
    /\ pc = "done" /\ ~(current_page = 1)
    /\ StartRun(current_page - 1)
    /\ UNCHANGED <<today, market, cache, selected_table, search_term, previous_table>>
    /\ Untouched

\* "Next", enabled unless current_page == total_pages: increment, st.rerun()
ClickNext ==
    /\ pc = "done" /\ ~(current_page = total_pages)
    /\ current_page < MaxPage
    /\ StartRun(current_page + 1)
    /\ UNCHANGED <<today, market, cache, selected_table, search_term, previous_table>>
    /\ Untouched

\* One pass of "for i in range(start_idx, end_idx, 2)": the first chart, and the
\* second if i + 1 < end_idx
RenderRow ==
    /\ pc = "loop" /\ i < end_idx
    /\ \E st1 \in {ChartSlot([cache |-> cache, calls |-> calls, drawn |-> drawn,
                               crashed |-> FALSE], stocks_df, i, market, today)} :
       \E st2 \in {IF ~st1.crashed /\ i + 1 < end_idx
                   THEN ChartSlot(st1, stocks_df, second_index(i), market, today)
                   ELSE st1} :
           /\ cache' = st2.cache /\ calls' = st2.calls /\ drawn' = st2.drawn
           /\ pc' = IF st2.crashed THEN "crashed" ELSE "loop"
           /\ i' = i + 2
    /\ UNCHANGED <<today, market, selected_table, search_term, current_page, previous_table>>
    /\ Untouched

\* The loop is over: the footer, and the script ends
FinishRun ==
    /\ pc = "loop" /\ i >= end_idx
    /\ pc' = "done"
    /\ UNCHANGED <<today, market, cache, selected_table, search_term, current_page,
                   previous_table, i, drawn, calls>>
    /\ Untouched

\* Midnight passes between two runs
Tick ==
    /\ pc = "done"
    /\ \E k \in 1..(Len(Clock) - 1) : today = Clock[k] /\ today' = Clock[k + 1]
    /\ UNCHANGED <<market, cache, selected_table, search_term, current_page, previous_table,
                   pc, i, drawn, calls>>
    /\ Untouched

\* The market-data source gives other answers than before
MarketMove ==
    /\ pc = "done" /\ market < MaxMarket
    /\ market' = market + 1
    /\ UNCHANGED <<today, cache, selected_table, search_term, current_page, previous_table,
                   pc, i, drawn, calls>>
    /\ Untouched

Next ==
    \/ \E table \in {Tables[k] : k \in 1..Len(Tables)} : SelectTable(table)
    \/ \E term \in SearchTerms : ChangeSearch(term)
    \/ ClickPrevious
    \/ ClickNext
    \/ RenderRow
    \/ FinishRun
    \/ Tick
    \/ MarketMove

Spec == Init /\ [][Next]_vars

-----------------------------------------------------------------------------
(* Claims about the running script *)

SlotsOfPage == {k \in 0..(Len(stocks_df) - 1) : start_idx <= k /\ k < end_idx}

DrawnFor(slot) == LET Mine(ins) == ins.slot = slot IN SelectSeq(drawn, Mine)

Ops(instrs) == [k \in 1..Len(instrs) |-> instrs[k].op]

ChartLoaded(slot) == \E k \in 1..Len(drawn) : drawn[k].op = "load" /\ drawn[k].slot = slot

Fetched2Bars(call) == ~call.hit /\ call.supplied.kind = "df" /\ Len(call.supplied.rows) >= 2

\* C2: a symbol whose fetch or whose later steps fail yields no-data and never
\* ends the run: the run reaches every symbol of the page, and every symbol
\* fetched with at least 2 bars gets its bundle and its chart
C2_FailureDoesNotAbortPage ==
    /\ pc # "crashed"
    /\ \A k \in 1..Len(calls) :
          /\ ~calls[k].raised
          /\ (~calls[k].hit /\ calls[k].supplied.kind = "error") => AllAbsent(calls[k].ret)
          /\ (~calls[k].hit /\ calls[k].supplied.kind = "df" /\ Len(calls[k].supplied.rows) = 1)
                => AllAbsent(calls[k].ret)
          /\ Fetched2Bars(calls[k])
                => (SummaryPresent(calls[k].ret) /\ ChartLoaded(calls[k].slot))
    /\ pc = "done" => {calls[k].slot : k \in 1..Len(calls)} = SlotsOfPage

C2_Witness ==
    /\ pc = "done" /\ Cardinality(SlotsOfPage) = CHARTS_PER_PAGE
    /\ \E j, k \in 1..Len(calls) :
          /\ j < k
          /\ ~calls[j].hit /\ calls[j].supplied.kind = "error" /\ AllAbsent(calls[j].ret)
          /\ Fetched2Bars(calls[k]) /\ ChartLoaded(calls[k].slot)

PivotNames == <<"P", "R1", "R2", "R3", "S1", "S2", "S3">>

\* C7: what is drawn for a slot is decided by what its load returned: nothing
\* on no-data; else one header, one chart, and seven lines P, R1, R2, R3, S1,
\* S2, S3 when there are pivots and no line when there are none
C7_DrawnDecidedByLoad ==
    /\ \A k \in 1..Len(drawn) : \E c \in 1..Len(calls) : calls[c].slot = drawn[k].slot
    /\ \A c \in 1..Len(calls) :
          LET ret == calls[c].ret
              mine == DrawnFor(calls[c].slot)
              IsLine(ins) == ins.op = "horizontal_line"
              lines == SelectSeq(mine, IsLine)
          IN  IF ret.chart_data = <<>> THEN mine = <<>>
              ELSE /\ Ops(mine) = <<"markdown">> \o Ops(lines) \o <<"set", "load">>
                   /\ mine[Len(mine) - 1].arg = ret.chart_data[1]
                   /\ IF ret.pivot_points = <<>> THEN lines = <<>>
                      ELSE /\ Len(lines) = 7
                           /\ \A n \in 1..7 : lines[n].arg[1] = PivotNames[n]
                           /\ <<lines[1].arg[2], lines[2].arg[2], lines[3].arg[2], lines[4].arg[2],
                                lines[5].arg[2], lines[6].arg[2], lines[7].arg[2]>>
                                 = <<ret.pivot_points[1].P, ret.pivot_points[1].R1,
                                     ret.pivot_points[1].R2, ret.pivot_points[1].R3,
                                     ret.pivot_points[1].S1, ret.pivot_points[1].S2,
                                     ret.pivot_points[1].S3>>

C7_Witness ==
    /\ pc = "done"
    /\ \E a, b, c \in 1..Len(calls) :
          /\ calls[a].ret.chart_data = <<>> /\ DrawnFor(calls[a].slot) = <<>>
          /\ calls[b].ret.chart_data # <<>> /\ calls[b].ret.pivot_points = <<>>
          /\ Len(DrawnFor(calls[b].slot)) = 3
          /\ calls[c].ret.pivot_points # <<>> /\ Len(DrawnFor(calls[c].slot)) = 10

\* C8: every request builds its bundle afresh, from the series the source
\* supplies and the previous month of the date at the time of the request
C8_FreshOnEveryRequest ==
    \A k \in 1..Len(calls) :
        calls[k].ret = load_chart_data_body(calls[k].supplied, calls[k].now).ret

\* C9: the charts come in the order of the page's symbols, each symbol of the
\* page is loaded and drawn at most once, and nothing outside the page is drawn
C9_PageOrder ==
    /\ \A j, k \in 1..Len(stocks_df) : j < k => stocks_df[j].symbol < stocks_df[k].symbol
    /\ \A k \in 1..Len(calls) :
          /\ calls[k].slot = start_idx + k - 1
          /\ calls[k].slot \in SlotsOfPage
          /\ calls[k].symbol = stocks_df[calls[k].slot + 1].symbol
    /\ \A k \in 1..Len(drawn) : drawn[k].slot \in SlotsOfPage
    /\ \A j, k \in 1..Len(drawn) :
          (j < k /\ drawn[j].op = "load" /\ drawn[k].op = "load") => drawn[j].slot < drawn[k].slot
    /\ pc = "done" => Len(calls) = Cardinality(SlotsOfPage)

C9_Witness ==
    /\ pc = "done" /\ current_page = 2 /\ Len(calls) = CHARTS_PER_PAGE
    /\ \E j, k \in 1..Len(drawn) : j < k /\ drawn[j].op = "load" /\ drawn[k].op = "load"

\* C10: current_page is at least 1 and, for a non-empty list, at most total_pages
C10_CurrentPageInRange ==
    /\ current_page >= 1
    /\ Len(stocks_df) > 0 => current_page <= total_pages

====
